---------------------------- MODULE Spec2Model ----------------------------
(***************************************************************************)
(* Model of the retrieval-augmented generation pipeline of AI-server:      *)
(*   - the stream decoder  OllamaService.streamChat  (ollama.service.ts)   *)
(*   - the chunker         splitMarkdown             (rag/markdown)        *)
(*   - the vector store    InMemoryVectorStore       (embeddings.store.ts) *)
(*   - the embedding client OllamaEmbeddings.embed   (embeddings.store.ts) *)
(*   - ingestion, retrieval and prompt assembly      (ollama.service.ts)   *)
(*   - the response of the chat endpoint             (ollama.controller.ts)*)
(*                                                                         *)
(* Text is modelled as a sequence of one-character strings.  A line of the *)
(* generation backend's stream is modelled as a sequence of lexical        *)
(* tokens: a whitespace run, the event prefix "data:", a complete JSON     *)
(* text, or text that is not JSON.                                         *)
(***************************************************************************)
EXTENDS Integers, Sequences, FiniteSets, TLC

(***************************************************************************)
(* Bounds of the model.                                                    *)
(***************************************************************************)
\* Lines the reader delivers at most in one streamChat call.
MaxStreamLines == 3
\* Lines of the markdown text given to splitMarkdown, at most.
MaxMdLines == 3
\* splitMarkdown is called with maxLen in 1..MaxMaxLen and overlap in 0..MaxOverlap.
MaxMaxLen == 3
MaxOverlap == 1
\* Items the vector store holds at most, chunks of one addMany call at most,
\* and the largest k search is called with.
MaxItems == 3
MaxBatch == 2
MaxK == 4
\* Fragments streamChat yields to the controller in one request, at most.
MaxChunks == 3
\* Turns of the history a prompt is assembled from, at most.
MaxHistory == 2
\* Documents of one call of streamChat or indexDocuments at most, and
\* fragments one generation stream yields at most.
MaxDocs == 2
MaxFragments == 1

VARIABLES
    \* ---- stream decoder (streamChat) ----
    pc,           \* position of the generator: "idle", "reading", "yielded", "done", "failed"
    reader,       \* the readline interface: "none", "open", "closed"
    consumed,     \* the lines the for-await loop has received so far, in order
    out,          \* the fragments yielded to the consumer so far, in order
    marks,        \* marks[i] = Len(out) when line i was received
    pendingBreak, \* suspended at the yield of a line whose done flag is set
    errMsg,       \* <<>> or <<m>>: the message of the error the generator raised
    cancelled,    \* the consumer called return() on the suspended generator
    inputEnded,   \* the input stream reached its end while the loop was waiting
    \* ---- chunker (splitMarkdown) ----
    cpc,            \* position in splitMarkdown: "off", "call", "loop", "done"
    md,             \* the text to split
    maxLen,         \* its maxLen argument
    overlap,        \* its overlap argument
    lines,          \* md.split(/\r?\n/)
    ix,             \* lines of `lines` the loop has been through
    buf,            \* the running buffer of lines
    bufStart,       \* index in `lines` of the first line of buf
    currentSection, \* <<>> (undefined) or <<label>>
    chunks,         \* the chunks pushed so far, in order
    \* ---- vector store (InMemoryVectorStore) ----
    items,          \* this.items: the stored chunks with their vectors, in order
    dim,            \* this.dim: <<>> (null) or <<n>>
    lastCall,       \* the last call made on the store, with what it returned
    \* ---- chat interactions (OllamaService) ----
    req,            \* req[r]: the state of call r of streamChat or indexDocuments
    \* ---- prompt assembly (buildPromptWithRetrieval) ----
    apc,            \* "off", "call", "done"
    history,        \* the history argument: turns with a role and a content
    userMessage,    \* the message argument
    conversation,   \* conversationBlock, <<>> before it is built
    \* ---- controller (OllamaController.chat) ----
    kpc,            \* "off", "validated", "loop", "finally", "returned"
    produced,       \* the fragments streamChat has yielded to the controller
    outcome,        \* how streamChat ended: "none", "completed" or what it raised
    written,        \* the records written to the response, in order
    resStatus,      \* the status set on the response, 0 before any is set
    ended           \* the number of calls of res.end()

decVars ==
    <<pc, reader, consumed, out, marks, pendingBreak, errMsg, cancelled, inputEnded>>

chVars ==
    <<cpc, md, maxLen, overlap, lines, ix, buf, bufStart, currentSection, chunks>>

ixVars == <<items, dim, lastCall>>

asVars == <<apc, history, userMessage, conversation>>

ctVars == <<kpc, produced, outcome, written, resStatus, ended>>

notDecVars == <<chVars, ixVars, req, asVars, ctVars>>
notChVars == <<decVars, ixVars, req, asVars, ctVars>>
notIxVars == <<decVars, chVars, req, asVars, ctVars>>
notPlVars == <<decVars, chVars, lastCall, asVars, ctVars>>
notAsVars == <<decVars, chVars, ixVars, req, ctVars>>
notCtVars == <<decVars, chVars, ixVars, req, asVars>>

vars == <<decVars, chVars, ixVars, req, asVars, ctVars>>

(***************************************************************************)
(* Lines of the stream.                                                    *)
(***************************************************************************)
\* An optional JSON field is <<>> when absent and <<v>> when present.
Absent == <<>>

Tok(kind) == [t |-> kind, response |-> Absent, done |-> Absent, error |-> Absent]

WS == Tok("ws")
DATA == Tok("data")
JUNK == Tok("junk")

\* The JSON text of a record with the given optional fields.
Json(r, d, e) == [t |-> "json", response |-> r, done |-> d, error |-> e]

\* String.prototype.trim on a line: drops the whitespace at both ends.
RECURSIVE TrimStart(_)
TrimStart(s) ==
    IF s # <<>> /\ Head(s).t = "ws" THEN TrimStart(Tail(s)) ELSE s

RECURSIVE TrimEnd(_)
TrimEnd(s) ==
    IF s # <<>> /\ s[Len(s)].t = "ws" THEN TrimEnd(SubSeq(s, 1, Len(s) - 1)) ELSE s

TrimLine(s) == TrimEnd(TrimStart(s))

\* trimmedLine.startsWith('data:') ? trimmedLine.slice(5).trim() : trimmedLine
JsonPayload(trimmedLine) ==
    IF trimmedLine # <<>> /\ Head(trimmedLine).t = "data"
        THEN TrimLine(Tail(trimmedLine))
        ELSE trimmedLine

\* JSON.parse succeeds exactly on one complete JSON text.
ParseOk(payload) == Len(payload) = 1 /\ payload[1].t = "json"

JsonParse(payload) == payload[1]

\* JavaScript truthiness of an optional string, and of an optional boolean.
TruthyStr(f) == f # Absent /\ f[1] # ""
TruthyBool(f) == f # Absent /\ f[1]

(***************************************************************************)
(* The body of the loop for one line, as the effect it has on the          *)
(* generator: what it yields, whether it leaves the loop, what it throws.  *)
(***************************************************************************)
Effect(y, b, th) == [yield |-> y, brk |-> b, throw |-> th]

Continue == Effect(<<>>, FALSE, <<>>)

\* A variant of the try body that tests the done flag before it yields, so
\* the response of the last record is dropped.
TryBodyBreaksFirst(payload) ==
    IF ~ParseOk(payload)
        THEN Effect(<<>>, FALSE, <<"SyntaxError">>)
        ELSE LET chunk == JsonParse(payload)
             IN  IF TruthyStr(chunk.error)
                     THEN Effect(<<>>, FALSE, <<chunk.error[1]>>)
                 ELSE IF TruthyBool(chunk.done)
                     THEN Effect(<<>>, TRUE, <<>>)
                 ELSE Effect(IF TruthyStr(chunk.response)
                                 THEN <<chunk.response[1]>> ELSE <<>>,
                             FALSE,
                             <<>>)

\* The statements inside the inner try (lines 233-236).
TryBody(payload) ==
    IF ~ParseOk(payload)
        THEN Effect(<<>>, FALSE, <<"SyntaxError">>)
        ELSE LET chunk == JsonParse(payload)
             IN  IF TruthyStr(chunk.error)
                     THEN Effect(<<>>, FALSE, <<chunk.error[1]>>)
                     ELSE Effect(IF TruthyStr(chunk.response)
                                     THEN <<chunk.response[1]>> ELSE <<>>,
                                 TruthyBool(chunk.done),
                                 <<>>)

\* A variant of the inner catch that lets the exception through.
CatchRethrows(e) == e

\* The inner catch (lines 237-239): whatever the try body threw is dropped
\* and the loop goes on with the next line.
CatchBadJson(e) ==
    IF e.throw # <<>> THEN Continue ELSE e

\* One iteration of the for-await loop (lines 225-239).
ProcessLine(line) ==
    LET trimmedLine == TrimLine(line)
    IN  IF trimmedLine = <<>>
            THEN Continue
            ELSE LET jsonPayload == JsonPayload(trimmedLine)
                 IN  IF jsonPayload = <<>>
                         THEN Continue
                         ELSE CatchBadJson(TryBody(jsonPayload))

\* The lines the backend may send.
StreamLines ==
    { <<>>,
      <<WS>>,
      <<DATA, WS>>,
      <<JUNK>>,
      <<Json(<<"He">>, Absent, Absent), Json(<<"llo">>, Absent, Absent)>>,
      <<WS, Json(<<"He">>, Absent, Absent), WS>>,
      <<DATA, WS, Json(<<"llo">>, <<FALSE>>, Absent)>>,
      <<Json(<<"">>, Absent, Absent)>>,
      <<Json(Absent, <<TRUE>>, Absent)>>,
      <<Json(<<"!">>, <<TRUE>>, Absent)>>,
      <<Json(Absent, Absent, <<"boom">>)>>,
      <<Json(<<"He">>, <<TRUE>>, <<"boom">>)>> }

(***************************************************************************)
(* streamChat from the creation of the line reader on.                     *)
(***************************************************************************)
DecInit ==
    /\ pc = "idle"
    /\ reader = "none"
    /\ consumed = <<>>
    /\ out = <<>>
    /\ marks = <<>>
    /\ pendingBreak = FALSE
    /\ errMsg = <<>>
    /\ cancelled = FALSE
    /\ inputEnded = FALSE

\* splitMarkdown is not running.
ChOff ==
    /\ cpc = "off"
    /\ md = <<>>
    /\ maxLen = 1200
    /\ overlap = 150
    /\ lines = <<>>
    /\ ix = 0
    /\ buf = <<>>
    /\ bufStart = 1
    /\ currentSection = <<>>
    /\ chunks = <<>>

\* A call on the store, with its arguments and what it returned.
Call(op, chs, vecs, q, k, result, n, flag) ==
    [op |-> op, chunks |-> chs, vectors |-> vecs, query |-> q, k |-> k,
     result |-> result, n |-> n, flag |-> flag]

NoCall == Call("none", <<>>, <<>>, <<>>, 0, <<>>, 0, FALSE)

\* A new InMemoryVectorStore on which nothing was called.
IxOff ==
    /\ items = <<>>
    /\ dim = <<>>
    /\ lastCall = NoCall

\* No call of the service has been made.
PlOff == req = <<>>

\* No request has reached the controller.
CtOff ==
    /\ kpc = "off"
    /\ produced = <<>>
    /\ outcome = "none"
    /\ written = <<>>
    /\ resStatus = 0
    /\ ended = 0

\* No prompt is being assembled.
AsOff ==
    /\ apc = "off"
    /\ history = <<>>
    /\ userMessage = <<>>
    /\ conversation = <<>>

\* The generation request fails (lines 213-218, 244-249): no reader exists.
PostFails ==
    /\ pc = "idle"
    /\ pc' = "failed"
    /\ errMsg' = <<"Ollama API request failed">>
    /\ UNCHANGED <<reader, consumed, out, marks, pendingBreak, cancelled, inputEnded>>
    /\ UNCHANGED notDecVars

\* The response arrives and the reader is created (lines 220-221).
CreateReader ==
    /\ pc = "idle"
    /\ pc' = "reading"
    /\ reader' = "open"
    /\ UNCHANGED <<consumed, out, marks, pendingBreak, errMsg, cancelled, inputEnded>>
    /\ UNCHANGED notDecVars

\* finally { reader.close() } (lines 241-243).
CloseReader == reader' = "closed"

\* A variant of the consumer's return() that skips the finally block.
ReturnSkipsFinally == UNCHANGED reader

\* The reader delivers a line to the loop (lines 224-240).
DeliverLine(line) ==
    /\ pc = "reading"
    /\ Len(consumed) < MaxStreamLines
    /\ consumed' = Append(consumed, line)
    /\ marks' = Append(marks, Len(out))
    /\ LET e == ProcessLine(line)
       IN  IF e.throw # <<>>
               THEN /\ pc' = "failed"
                    /\ errMsg' = e.throw
                    /\ CloseReader
                    /\ UNCHANGED <<out, pendingBreak>>
           ELSE IF e.yield # <<>>
               THEN /\ pc' = "yielded"
                    /\ out' = out \o e.yield
                    /\ pendingBreak' = e.brk
                    /\ UNCHANGED <<reader, errMsg>>
           ELSE IF e.brk
               THEN /\ pc' = "done"
                    /\ CloseReader
                    /\ UNCHANGED <<out, pendingBreak, errMsg>>
           ELSE UNCHANGED <<pc, reader, out, pendingBreak, errMsg>>
    /\ UNCHANGED <<cancelled, inputEnded>>
    /\ UNCHANGED notDecVars

\* The consumer asks for the next fragment: the generator resumes after the
\* yield and tests the done flag (line 236).
ConsumerNext ==
    /\ pc = "yielded"
    /\ IF pendingBreak
           THEN pc' = "done" /\ CloseReader
           ELSE pc' = "reading" /\ UNCHANGED reader
    /\ pendingBreak' = FALSE
    /\ UNCHANGED <<consumed, out, marks, errMsg, cancelled, inputEnded>>
    /\ UNCHANGED notDecVars

\* What return() on the generator suspended at the yield does to the reader:
\* the finally block runs.
ReturnRunsFinally == CloseReader

\* The consumer stops early: return() on the generator suspended at the yield.
ConsumerReturn ==
    /\ pc = "yielded"
    /\ pc' = "done"
    /\ cancelled' = TRUE
    /\ ReturnRunsFinally
    /\ pendingBreak' = FALSE
    /\ UNCHANGED <<consumed, out, marks, errMsg, inputEnded>>
    /\ UNCHANGED notDecVars

\* A variant of the end of the stream that raises.
EndRaises ==
    /\ pc' = "failed"
    /\ errMsg' = <<"unexpected end of stream">>

\* What the end of the input does to the generator: the loop ends normally.
EndCompletes ==
    /\ pc' = "done"
    /\ UNCHANGED errMsg

\* The input stream ends: the loop ends, then the finally block (lines 240-243).
StreamEnd ==
    /\ pc = "reading"
    /\ inputEnded' = TRUE
    /\ EndCompletes
    /\ CloseReader
    /\ UNCHANGED <<consumed, out, marks, pendingBreak, cancelled>>
    /\ UNCHANGED notDecVars

\* The transport fails while the loop awaits a line: the for-await throws,
\* the finally block runs and the outer catch rethrows (lines 244-251).
StreamError ==
    /\ pc = "reading"
    /\ pc' = "failed"
    /\ errMsg' = <<"transport">>
    /\ CloseReader
    /\ UNCHANGED <<consumed, out, marks, pendingBreak, cancelled, inputEnded>>
    /\ UNCHANGED notDecVars

DecNext ==
    \/ PostFails
    \/ CreateReader
    \/ \E line \in StreamLines : DeliverLine(line)
    \/ ConsumerNext
    \/ ConsumerReturn
    \/ StreamEnd
    \/ StreamError

DecoderInit == DecInit /\ ChOff /\ IxOff /\ PlOff /\ AsOff /\ CtOff

SpecDecoder == DecoderInit /\ [][DecNext]_vars

\* The reader keeps delivering until the stream ends and the consumer keeps
\* asking or gives up: no step of the call waits forever.
SpecDecoderFair == SpecDecoder /\ WF_vars(DecNext)

(***************************************************************************)
(* splitMarkdown.  Text is a sequence of one-character strings.            *)
(***************************************************************************)
\* What \s and trim() take for whitespace, and what . does not match.
Whitespace == {" ", "\t", "\n", "\r"}
LineTerminators == {"\n", "\r"}

\* md.split(/\r?\n/): cur is the piece being read, acc the pieces before it.
RECURSIVE SplitAcc(_, _, _)
SplitAcc(s, cur, acc) ==
    IF s = <<>> THEN Append(acc, cur)
    ELSE IF Head(s) = "\n" THEN SplitAcc(Tail(s), <<>>, Append(acc, cur))
    ELSE IF Head(s) = "\r" /\ Len(s) >= 2 /\ s[2] = "\n"
        THEN SplitAcc(Tail(Tail(s)), <<>>, Append(acc, cur))
    ELSE SplitAcc(Tail(s), Append(cur, Head(s)), acc)

SplitLines(s) == SplitAcc(s, <<>>, <<>>)

\* b.join('\n')
RECURSIVE JoinNL(_)
JoinNL(b) ==
    IF b = <<>> THEN <<>>
    ELSE IF Len(b) = 1 THEN b[1]
    ELSE b[1] \o <<"\n">> \o JoinNL(Tail(b))

\* String.prototype.trim on text.
RECURSIVE TrimTextStart(_)
TrimTextStart(s) ==
    IF s # <<>> /\ Head(s) \in Whitespace THEN TrimTextStart(Tail(s)) ELSE s

RECURSIVE TrimTextEnd(_)
TrimTextEnd(s) ==
    IF s # <<>> /\ s[Len(s)] \in Whitespace
        THEN TrimTextEnd(SubSeq(s, 1, Len(s) - 1))
        ELSE s

TrimText(s) == TrimTextEnd(TrimTextStart(s))

\* The number of leading characters of s that are in set.
RECURSIVE LeadingRun(_, _)
LeadingRun(s, set) ==
    IF s # <<>> /\ Head(s) \in set THEN 1 + LeadingRun(Tail(s), set) ELSE 0

Drop(s, n) == SubSeq(s, n + 1, Len(s))

\* line.match(/^#{2,6}\s+(.+)$/): <<>> when the line does not match, else
\* <<h1>> with h1 the captured group.  The whitespace run after the hashes
\* is matched greedily and gives back one character when nothing follows
\* it; the group runs to the end of the line and holds no line terminator.
HeadingMatch(line) ==
    LET n == LeadingRun(line, {"#"})
        afterHashes == Drop(line, n)
        m == LeadingRun(afterHashes, Whitespace)
        rest == Drop(afterHashes, m)
        group == IF rest # <<>> THEN rest ELSE Drop(afterHashes, m - 1)
    IN  IF /\ n \in 2..6
           /\ m >= 1
           /\ (rest = <<>> => m >= 2)
           /\ \A i \in 1..Len(group) : group[i] \notin LineTerminators
            THEN <<group>>
            ELSE <<>>

\* A chunk as pushed, with where it came from: the lines of the input its
\* text starts and ends in, its length before trim(), and whether a forced
\* split pushed it.
Chunk(text, section, first, last, rawLen, forced) ==
    [text |-> text, section |-> section, first |-> first, last |-> last,
     rawLen |-> rawLen, forced |-> forced]

\* push() (lines 235-240) as the chunks it leaves; it empties buf as well.
Push(b, cs, section, first) ==
    IF b = <<>> THEN cs
    ELSE LET text == TrimText(JoinNL(b))
         IN  IF text # <<>>
                 THEN Append(cs, Chunk(text, section, first, first + Len(b) - 1,
                                       Len(JoinNL(b)), FALSE))
                 ELSE cs

\* A slicing that takes one character more than its step.
RECURSIVE PartsOverlapping(_, _)
PartsOverlapping(text, n) ==
    IF text = <<>> THEN <<>>
    ELSE <<SubSeq(text, 1, IF Len(text) < n + 1 THEN Len(text) ELSE n + 1)>>
            \o PartsOverlapping(Drop(text, IF Len(text) < n THEN Len(text) ELSE n), n)

\* for (i = 0; i < text.length; i += maxLen) parts.push(text.slice(i, i + maxLen))
RECURSIVE Parts(_, _)
Parts(text, n) ==
    IF text = <<>> THEN <<>>
    ELSE IF Len(text) <= n THEN <<text>>
    ELSE <<SubSeq(text, 1, n)>> \o Parts(Drop(text, n), n)

\* A trigger that forgets the overlap is slack, not a second maxLen.
SplitLate(text, mx, ov) == Len(text) > mx + mx + ov

\* buf.join('\n').length > maxLen + overlap (line 250)
SplitNeeded(text, mx, ov) == Len(text) > mx + ov

\* The number of line feeds in s.
NLCount(s) == Cardinality({i \in 1..Len(s) : s[i] = "\n"})

\* The chunks the forced split pushes (lines 252-257): one per part, trimmed,
\* whatever is left of it.
ForcedChunks(text, n, section, first) ==
    LET parts == Parts(text, n)
        \* the loop's i when part k is sliced
        Off(k) == (k - 1) * n
    IN  [k \in 1..Len(parts) |->
            Chunk(TrimText(parts[k]), section,
                  first + NLCount(SubSeq(text, 1, Off(k) + 1)),
                  first + NLCount(SubSeq(text, 1, Off(k) + Len(parts[k]))),
                  Len(parts[k]), TRUE)]

\* A flush that already carries the heading's own label.
LabelAfterAssign(previous, heading) == heading

\* The label push() sees when a heading flushes the buffer: push() runs
\* before currentSection is assigned (lines 246-247).
LabelAtFlush(previous, heading) == previous

\* The text splitMarkdown may be given: up to MaxMdLines lines.
MdLines ==
    { <<>>,
      <<"a", "\r">>,
      <<"a", " ", " ", "b">>,
      <<"#", "#", " ", "a">>,
      <<"#", "#", "#", " ", "b", " ">>,
      <<"#", " ", "a">>,
      <<"#", "#", "a">>,
      <<"#", "#", " ", " ">>,
      <<"#", "#", "#", "#", "#", "#", "\t", "c">>,
      <<"#", "#", "#", "#", "#", "#", "#", " ", "c">> }

RECURSIVE LineSeqs(_)
LineSeqs(n) ==
    IF n = 0 THEN {<<>>}
    ELSE LET shorter == LineSeqs(n - 1)
         IN  shorter \cup {Append(ls, l) : ls \in {x \in shorter : Len(x) = n - 1},
                                           l \in MdLines}

MdTexts == {JoinNL(ls) : ls \in LineSeqs(MaxMdLines)}

ChInit ==
    /\ cpc = "call"
    /\ md \in MdTexts
    /\ maxLen \in 1..MaxMaxLen
    /\ overlap \in 0..MaxOverlap
    /\ lines = <<>>
    /\ ix = 0
    /\ buf = <<>>
    /\ bufStart = 1
    /\ currentSection = <<>>
    /\ chunks = <<>>

\* Lines 230-233.
ChStart ==
    /\ cpc = "call"
    /\ cpc' = "loop"
    /\ lines' = SplitLines(md)
    /\ UNCHANGED <<md, maxLen, overlap, ix, buf, bufStart, currentSection, chunks>>
    /\ UNCHANGED notChVars

\* One iteration of the loop (lines 242-260).
ChLine ==
    /\ cpc = "loop"
    /\ ix < Len(lines)
    /\ LET i == ix + 1
           line == lines[i]
           h == HeadingMatch(line)
           pushed == IF h # <<>>
                         THEN Push(buf, chunks,
                                   LabelAtFlush(currentSection, <<TrimText(h[1])>>),
                                   bufStart)
                         ELSE chunks
           buf1 == IF h # <<>> THEN <<>> ELSE buf
           start1 == IF buf1 = <<>> THEN i ELSE bufStart
           section == IF h # <<>> THEN <<TrimText(h[1])>> ELSE currentSection
           buf2 == Append(buf1, line)
           text == JoinNL(buf2)
       IN  /\ ix' = i
           /\ currentSection' = section
           /\ IF SplitNeeded(text, maxLen, overlap)
                  THEN /\ chunks' = pushed \o ForcedChunks(text, maxLen, section, start1)
                       /\ buf' = <<>>
                       /\ bufStart' = i + 1
                  ELSE /\ chunks' = pushed
                       /\ buf' = buf2
                       /\ bufStart' = start1
    /\ UNCHANGED <<cpc, md, maxLen, overlap, lines>>
    /\ UNCHANGED notChVars

\* The last push() and the return (lines 261-262).
ChReturn ==
    /\ cpc = "loop"
    /\ ix = Len(lines)
    /\ cpc' = "done"
    /\ chunks' = Push(buf, chunks, currentSection, bufStart)
    /\ buf' = <<>>
    /\ UNCHANGED <<md, maxLen, overlap, lines, ix, bufStart, currentSection>>
    /\ UNCHANGED notChVars

ChNext ==
    \/ ChStart
    \/ ChLine
    \/ ChReturn

ChunkerInit == ChInit /\ DecInit /\ IxOff /\ PlOff /\ AsOff /\ CtOff

SpecChunker == ChunkerInit /\ [][ChNext]_vars

(***************************************************************************)
(* InMemoryVectorStore.  A vector is a sequence of integers.               *)
(***************************************************************************)
Min(a, b) == IF a < b THEN a ELSE b

\* The vectors the store is given and queried with.
Vectors ==
    { <<1, 0>>, <<2, 0>>, <<0, 1>>, <<1, 1>>, <<-1, 0>>, <<0, 0>>, <<1>> }

\* b[i] for an index of a: undefined past the end of b.
Defined(a, b) == Len(b) >= Len(a)

RECURSIVE DotTo(_, _, _)
DotTo(a, b, n) == IF n = 0 THEN 0 ELSE a[n] * b[n] + DotTo(a, b, n - 1)

\* cosine(a, b) (lines 39-47).  The loop runs over the indexes of a; with b
\* shorter than a it adds undefined and the result is NaN.  Otherwise the
\* result dot / (sqrt(na) * sqrt(nb) + 1e-12) is kept as the pair of dot and
\* nn = na * nb, which decide every comparison of two results exactly.
Cosine(a, b) ==
    IF ~Defined(a, b) THEN [nan |-> TRUE, dot |-> 0, nn |-> 0]
    ELSE [nan |-> FALSE,
          dot |-> DotTo(a, b, Len(a)),
          nn |-> DotTo(a, a, Len(a)) * DotTo(b, b, Len(a))]

Sign(x) == IF x > 0 THEN 1 ELSE IF x < 0 THEN -1 ELSE 0

\* x > y for two results that are numbers.  dot / (sqrt(nn) + e) has the
\* sign of dot; two results of one sign compare as their squares
\* dot^2 / nn do, and with these equal the larger nn, which e lowers less,
\* is further from zero.
Greater(x, y) ==
    IF Sign(x.dot) # Sign(y.dot) THEN Sign(x.dot) > Sign(y.dot)
    ELSE IF Sign(x.dot) = 0 THEN FALSE
    ELSE LET l == x.dot * x.dot * y.nn
             r == y.dot * y.dot * x.nn
             further == l > r \/ (l = r /\ x.nn > y.nn)
             nearer == l < r \/ (l = r /\ x.nn < y.nn)
         IN  IF Sign(x.dot) > 0 THEN further ELSE nearer

\* this.items.map(it => ({it, s: cosine(queryVec, it.vector)})) (lines 27-30)
Scores(its, q) ==
    [i \in 1..Len(its) |-> [it |-> its[i], s |-> Cosine(q, its[i].vector)]]

\* A sort that puts the lowest score first.
RECURSIVE SortAscending(_)
SortAscending(sc) ==
    IF sc = <<>> THEN <<>>
    ELSE LET e == sc[Len(sc)]
             before == SortAscending(SubSeq(sc, 1, Len(sc) - 1))
             keep == Cardinality({i \in 1..Len(before) : ~Greater(before[i].s, e.s)})
         IN  SubSeq(before, 1, keep) \o <<e>> \o SubSeq(before, keep + 1, Len(before))

\* scores.sort((a, b) => b.s - a.s) (line 31) on numbers: a stable sort, the
\* highest score first, so each element goes behind those before it that
\* are not lower.
RECURSIVE SortDescending(_)
SortDescending(sc) ==
    IF sc = <<>> THEN <<>>
    ELSE LET e == sc[Len(sc)]
             before == SortDescending(SubSeq(sc, 1, Len(sc) - 1))
             keep == Cardinality({i \in 1..Len(before) : ~Greater(e.s, before[i].s)})
         IN  SubSeq(before, 1, keep) \o <<e>> \o SubSeq(before, keep + 1, Len(before))

Orders(n) ==
    {p \in [1..n -> 1..n] : \A i, j \in 1..n : p[i] = p[j] => i = j}

\* What the sort may leave: with a NaN among the scores the comparator is
\* not consistent and the order is whatever the engine's sort makes of it.
Sorted(sc) ==
    IF \E i \in 1..Len(sc) : sc[i].s.nan
        THEN {[i \in 1..Len(sc) |-> sc[p[i]]] : p \in Orders(Len(sc))}
        ELSE {SortDescending(sc)}

\* scores.slice(0, k).map(x => x.it) (line 32), for k >= 0.
TopK(sorted, k) ==
    [i \in 1..Min(k, Len(sorted)) |-> sorted[i].it]

\* search(queryVec, k) (lines 26-33): the results it may return.
Search(its, q, k) == {TopK(srt, k) : srt \in Sorted(Scores(its, q))}

\* A push that loses the last chunk of the batch.
PushedAllButLast(its, chs, vecs) ==
    its \o [i \in 1..(Len(chs) - 1) |->
               [id |-> chs[i].id, text |-> chs[i].text, vector |-> vecs[i]]]

\* A push that leaves out the chunks whose text is stored already.
PushedNew(its, chs, vecs) ==
    LET fresh == SelectSeq([i \in 1..Len(chs) |->
                               [id |-> chs[i].id, text |-> chs[i].text, vector |-> vecs[i]]],
                           LAMBDA c : \A j \in 1..Len(its) : its[j].text # c.text)
    IN  its \o fresh

\* A push that puts the new items in front.
PushedInFront(its, chs, vecs) ==
    [i \in 1..Len(chs) |->
        [id |-> chs[i].id, text |-> chs[i].text, vector |-> vecs[i]]] \o its

\* chunks.forEach((c, i) => this.items.push({...c, vector: vectors[i]})) (line 22)
Pushed(its, chs, vecs) ==
    its \o [i \in 1..Len(chs) |->
                [id |-> chs[i].id, text |-> chs[i].text, vector |-> vecs[i]]]

\* if (this.dim === null && vectors[0]) this.dim = vectors[0].length (line 21)
DimAfter(d, vecs) ==
    IF d = <<>> /\ vecs # <<>> THEN <<Len(vecs[1])>> ELSE d

\* addMany(chunks, vectors) (lines 20-23) with as many vectors as chunks.
IxAddMany ==
    \E n \in 0..MaxBatch :
        /\ lastCall = NoCall
        /\ Len(items) + n <= MaxItems
        /\ \E vecs \in [1..n -> Vectors] :
              LET chs == [i \in 1..n |->
                            [id |-> <<0, 0, Len(items) + i>>, text |-> "t"]]
              IN  /\ dim' = DimAfter(dim, vecs)
                  /\ items' = Pushed(items, chs, vecs)
                  /\ lastCall' = Call("addMany", chs, vecs, <<>>, 0, <<>>,
                                      Len(items), FALSE)
        /\ UNCHANGED notIxVars

IxSearch ==
    \E q \in Vectors, k \in 0..MaxK :
        /\ lastCall = NoCall
        /\ \E r \in Search(items, q, k) :
              lastCall' = Call("search", <<>>, <<>>, q, k, r, 0, FALSE)
        /\ UNCHANGED <<items, dim>>
        /\ UNCHANGED notIxVars

\* count() (line 35)
IxCount ==
    /\ lastCall = NoCall
    /\ lastCall' = Call("count", <<>>, <<>>, <<>>, 0, <<>>, Len(items), FALSE)
    /\ UNCHANGED <<items, dim>>
    /\ UNCHANGED notIxVars

\* isEmpty() (line 36)
IxIsEmpty ==
    /\ lastCall = NoCall
    /\ lastCall' = Call("isEmpty", <<>>, <<>>, <<>>, 0, <<>>, 0, Len(items) = 0)
    /\ UNCHANGED <<items, dim>>
    /\ UNCHANGED notIxVars

\* The call returns to its caller; the store is synchronous, one call at a
\* time.
IxReturn ==
    /\ lastCall # NoCall
    /\ lastCall' = NoCall
    /\ UNCHANGED <<items, dim>>
    /\ UNCHANGED notIxVars

IxNext ==
    \/ IxAddMany
    \/ IxSearch
    \/ IxCount
    \/ IxIsEmpty
    \/ IxReturn

IndexInit == IxOff /\ DecInit /\ ChOff /\ PlOff /\ AsOff /\ CtOff

SpecIndex == IndexInit /\ [][IxNext]_vars

(***************************************************************************)
(* OllamaService.indexDocuments, retrieveContext, streamChat and           *)
(* OllamaEmbeddings.embed, for several calls in flight on one event loop.  *)
(* An action runs one call from one await to its next await.               *)
(*                                                                         *)
(* A document is a markdown text of `units` sections, each of `unitChars`  *)
(* characters: a heading, a body line and blank lines up to that size.     *)
(* splitMarkdown(text, 1200, 150) gives one chunk per section of such a    *)
(* text; the chunk of section i of document `name` has text <<name, i>>.   *)
(***************************************************************************)
MAX_DOCS == 20
MAX_CHUNKS_PER_DOC == 80
MAX_CHARS_PER_DOC == 200000
\* k of retrieveContext(message, 6)
RETRIEVE_K == 6

\* The calls of streamChat and indexDocuments that are in flight together.
Requests == {"r1", "r2"}

Doc(name, units, unitChars) ==
    [name |-> name, units |-> units, unitChars |-> unitChars]

\* A slice that keeps every document.
AllDocs(docs) == docs

\* documents.slice(0, MAX_DOCS) (line 90)
FirstDocs(docs) == SubSeq(docs, 1, Min(Len(docs), MAX_DOCS))

\* doc.content.slice(0, MAX_CHARS_PER_DOC) (line 91): the whole sections of
\* the content that the slice keeps.  unitChars divides MAX_CHARS_PER_DOC in
\* every document of the model, so the slice ends between two sections.
SafeUnits(doc) ==
    IF doc.units * doc.unitChars <= MAX_CHARS_PER_DOC
        THEN doc.units
        ELSE MAX_CHARS_PER_DOC \div doc.unitChars

\* splitMarkdown(safe, 1200, 150).slice(0, MAX_CHUNKS_PER_DOC) (line 92): the
\* number of chunks kept of one document.
KeptChunks(doc) == Min(SafeUnits(doc), MAX_CHUNKS_PER_DOC)

\* The inner loop (lines 94-102) for document d of call r: one entry per
\* kept chunk, with a fresh identifier.
DocChunks(r, d, doc) ==
    [c \in 1..KeptChunks(doc) |-> [id |-> <<r, d, c>>, text |-> <<doc.name, c>>]]

RECURSIVE ChunksUpTo(_, _, _)
\* The outer loop (lines 90-103) over the first n documents of `kept`.
ChunksUpTo(r, kept, n) ==
    IF n = 0 THEN <<>>
    ELSE ChunksUpTo(r, kept, n - 1) \o DocChunks(r, n, kept[n])

\* toAddMetas after the loops (lines 83-103); toAddTexts is its text fields.
ToAdd(r, docs) == ChunksUpTo(r, FirstDocs(docs), Len(FirstDocs(docs)))

TextsOf(chs) == [i \in 1..Len(chs) |-> chs[i].text]

\* The vector the embedding backend computes for a text.
Embedding(text) ==
    IF text[1] = "A" THEN (IF text[2] % 2 = 1 THEN <<1, 0>> ELSE <<2, 1>>)
    ELSE IF text[1] = "B" THEN (IF text[2] % 2 = 1 THEN <<0, 1>> ELSE <<1, 2>>)
    ELSE <<1, 1>>

NoText == <<"", 0>>

\* One entry of the trace of a call: what it sent, received or did.
Event(ev, text, vec, n) == [ev |-> ev, text |-> text, vec |-> vec, n |-> n]

\* A call that has not been made.
Idle ==
    [pc |-> "idle", entry |-> "none", docs |-> <<>>, message |-> NoText,
     toAdd |-> <<>>, phase |-> "none", texts |-> <<>>, vectors |-> <<>>,
     inflight |-> FALSE, hits |-> <<>>, prompt |-> FALSE, fragments |-> 0,
     error |-> "none", log |-> <<>>]

Logged(rec, e) == [rec EXCEPT !.log = Append(@, e)]

\* The call returns to its caller (for streamChat: the generator completes).
Returned(rec) == [rec EXCEPT !.pc = "done", !.inflight = FALSE]

\* An exception leaves the call.  Under streamChat it passes the outer catch
\* (lines 244-252), which replaces an axios error by a new Error and rethrows
\* any other; indexDocuments called directly lets it through as it is.
Raised(rec, err) ==
    [rec EXCEPT !.pc = "failed", !.inflight = FALSE,
                !.error = IF rec.entry = "streamChat" /\ err = "axios"
                              THEN "Ollama API request failed"
                              ELSE err]

\* embed(texts) up to its first await (lines 52-58): the request for the
\* first text is sent; with no text the loop is not entered.
EmbedCalled(rec, texts, phase) ==
    LET r1 == [rec EXCEPT !.phase = phase, !.texts = texts, !.vectors = <<>>]
    IN  IF texts = <<>>
            THEN [r1 EXCEPT !.pc = "embedded"]
            ELSE Logged([r1 EXCEPT !.pc = "embed", !.inflight = TRUE],
                        Event("request", texts[1], <<>>, 1))

ReplyKinds == {"vector", "invalid", "transport"}

\* A push that puts the new vector in front.
VectorUnshifted(vs, v) == <<v>> \o vs

\* vectors.push(data.embedding) (line 63)
VectorPushed(vs, v) == Append(vs, v)

\* A client that sends the request for text i again after a reply without
\* a vector.
InvalidReplyRetried(rec, t, i) ==
    Logged(Logged(rec, Event("invalid", t, <<>>, i)), Event("request", t, <<>>, i))

\* The reply to the request for text i has no vector: embed raises (lines
\* 59-62).
InvalidReply(rec, t, i) ==
    Raised(Logged(rec, Event("invalid", t, <<>>, i)),
           "Embedding invalide depuis Ollama")

\* embed from the reply to the request in flight to its next await or its
\* end (lines 55-64).  A reply with a vector is pushed and the request for
\* the next text is sent, or the vectors are returned; a reply without a
\* vector raises (line 60); a failed transport call rejects the await.
EmbedReplied(rec, kind) ==
    LET i == Len(rec.vectors) + 1
        t == rec.texts[i]
    IN  IF kind = "vector"
            THEN LET r1 == Logged([rec EXCEPT !.vectors = VectorPushed(@, Embedding(t))],
                                  Event("reply", t, Embedding(t), i))
                 IN  IF i < Len(rec.texts)
                         THEN Logged(r1, Event("request", rec.texts[i + 1], <<>>, i + 1))
                         ELSE [r1 EXCEPT !.pc = "embedded", !.inflight = FALSE]
        ELSE IF kind = "invalid"
            THEN InvalidReply(rec, t, i)
            ELSE Raised(Logged(rec, Event("transport", t, <<>>, i)), "axios")

\* indexDocuments (lines 76-107) or streamChat with buildPromptWithRetrieval
\* (lines 203-208, 153-157, 123) from the call to the first await.
Called(r, entry, docs, message) ==
    LET toAdd == IF docs = <<>> THEN <<>> ELSE ToAdd(r, docs)
        r1 == [Idle EXCEPT !.entry = entry, !.docs = docs,
                           !.message = message, !.toAdd = toAdd]
    IN  IF toAdd # <<>> THEN EmbedCalled(r1, TextsOf(toAdd), "ingest")
        ELSE IF entry = "indexDocuments" THEN Returned(r1)
        ELSE EmbedCalled(r1, <<message>>, "query")

Message == <<"q", 0>>

\* The documents calls are made with: none, or the first documents of a
\* list of one-section documents "A", "B" and an empty one.
DocAt(d) ==
    IF d % 3 = 1 THEN Doc("A", 1, 1000)
    ELSE IF d % 3 = 2 THEN Doc("B", 1, 1000)
    ELSE Doc("E", 0, 1000)

PipelineDocs == {[d \in 1..n |-> DocAt(d)] : n \in 0..MaxDocs}

\* Call r is made: streamChat is called and its generator started, or
\* indexDocuments is called.
PlCall(r) ==
    /\ req[r].pc = "idle"
    /\ \E entry \in {"streamChat", "indexDocuments"}, docs \in PipelineDocs :
          req' = [req EXCEPT ![r] = Called(r, entry, docs, Message)]
    /\ UNCHANGED <<items, dim>>
    /\ UNCHANGED notPlVars

\* The embedding backend answers the request call r has in flight.
PlEmbedReply(r) ==
    /\ req[r].pc = "embed"
    /\ req[r].inflight
    /\ \E kind \in ReplyKinds :
          req' = [req EXCEPT ![r] = EmbedReplied(req[r], kind)]
    /\ UNCHANGED <<items, dim>>
    /\ UNCHANGED notPlVars

\* indexDocuments resumes with the vectors of its chunks (lines 107-113):
\* one addMany; then it returns, and under streamChat retrieveContext
\* starts embedding the message (lines 157, 123).
PlAddMany(r) ==
    LET rec == req[r]
        r1 == Logged(rec, Event("addMany", NoText, <<>>, Len(items)))
    IN  /\ rec.pc = "embedded"
        /\ rec.phase = "ingest"
        /\ items' = Pushed(items, rec.toAdd, rec.vectors)
        /\ dim' = DimAfter(dim, rec.vectors)
        /\ req' = [req EXCEPT ![r] =
                      IF rec.entry = "indexDocuments" THEN Returned(r1)
                      ELSE EmbedCalled(r1, <<rec.message>>, "query")]
        /\ UNCHANGED notPlVars

\* retrieveContext resumes with the vector of the message (lines 123-141)
\* and buildPromptWithRetrieval assembles the prompt (lines 159-193).
PlSearch(r) ==
    LET rec == req[r]
    IN  /\ rec.pc = "embedded"
        /\ rec.phase = "query"
        /\ \E h \in Search(items, rec.vectors[1], RETRIEVE_K) :
              req' = [req EXCEPT ![r] =
                         Logged([rec EXCEPT !.pc = "assembled", !.prompt = TRUE,
                                            !.hits = [i \in 1..Len(h) |-> h[i].id]],
                                Event("search", rec.message, rec.vectors[1], Len(items)))]
        /\ UNCHANGED <<items, dim>>
        /\ UNCHANGED notPlVars

\* A call that posts as soon as it has been made.
CanSendEarly(rec) == rec.pc \in {"assembled", "embed"}

\* streamChat has its prompt (line 204).
CanSend(rec) == rec.pc = "assembled"

\* streamChat posts the generation request (lines 211-218).
PlSend(r) ==
    /\ CanSend(req[r])
    /\ req' = [req EXCEPT ![r] =
                  Logged([req[r] EXCEPT !.pc = "awaitGen", !.inflight = TRUE],
                         Event("send", NoText, <<>>, 0))]
    /\ UNCHANGED <<items, dim>>
    /\ UNCHANGED notPlVars

\* The generation backend answers: with a stream, on which the reader is
\* created (lines 220-221), or the post fails.
PlGenReply(r) ==
    /\ req[r].pc = "awaitGen"
    /\ \E kind \in {"stream", "transport"} :
          req' = [req EXCEPT ![r] =
                     IF kind = "stream"
                         THEN [req[r] EXCEPT !.pc = "decoding", !.inflight = FALSE]
                         ELSE Raised(Logged(req[r], Event("genFailed", NoText, <<>>, 0)),
                                     "axios")]
    /\ UNCHANGED <<items, dim>>
    /\ UNCHANGED notPlVars

\* The decoding loop yields a fragment (line 235).
PlYield(r) ==
    /\ req[r].pc = "decoding"
    /\ req[r].fragments < MaxFragments
    /\ req' = [req EXCEPT ![r] =
                  Logged([req[r] EXCEPT !.fragments = @ + 1],
                         Event("yield", NoText, <<>>, req[r].fragments + 1))]
    /\ UNCHANGED <<items, dim>>
    /\ UNCHANGED notPlVars

\* The decoding loop ends (lines 224-243): the stream is over, a line is
\* marked done or the consumer stops, and the generator completes.
PlStreamEnd(r) ==
    /\ req[r].pc = "decoding"
    /\ req' = [req EXCEPT ![r] = Returned(req[r])]
    /\ UNCHANGED <<items, dim>>
    /\ UNCHANGED notPlVars

PlNext ==
    \E r \in Requests :
        \/ PlCall(r)
        \/ PlEmbedReply(r)
        \/ PlAddMany(r)
        \/ PlSearch(r)
        \/ PlSend(r)
        \/ PlGenReply(r)
        \/ PlYield(r)
        \/ PlStreamEnd(r)

PlInit == req = [r \in Requests |-> Idle]

PipelineInit == PlInit /\ IxOff /\ DecInit /\ ChOff /\ AsOff /\ CtOff

SpecPipeline == PipelineInit /\ [][PlNext]_vars

(***************************************************************************)
(* indexDocuments alone, called once with large inputs.                    *)
(***************************************************************************)
Copies(n, doc) == [d \in 1..n |-> doc]

\* No document; a document without text; MAX_DOCS + 5 documents of one
\* section; one document of MAX_CHUNKS_PER_DOC + 5 sections; one document of
\* six sections that is one and a half times MAX_CHARS_PER_DOC long; and
\* MAX_DOCS + 1 documents of MAX_CHUNKS_PER_DOC + 1 sections.
IngestDocs ==
    { <<>>,
      <<Doc("E", 0, 1000)>>,
      Copies(MAX_DOCS + 5, Doc("A", 1, 1000)),
      <<Doc("A", MAX_CHUNKS_PER_DOC + 5, 1000)>>,
      <<Doc("B", 6, 50000)>>,
      Copies(MAX_DOCS + 1, Doc("A", MAX_CHUNKS_PER_DOC + 1, 1000)) }

IngCall ==
    /\ req["r1"].pc = "idle"
    /\ \E docs \in IngestDocs :
          req' = [req EXCEPT !["r1"] = Called("r1", "indexDocuments", docs, Message)]
    /\ UNCHANGED <<items, dim>>
    /\ UNCHANGED notPlVars

IngNext == IngCall \/ PlEmbedReply("r1") \/ PlAddMany("r1")

IngestInit == PlInit /\ IxOff /\ DecInit /\ ChOff /\ AsOff /\ CtOff

SpecIngest == IngestInit /\ [][IngNext]_vars

(***************************************************************************)
(* The conversation block of buildPromptWithRetrieval.  Text is a sequence *)
(* of one-character strings in which each of the four tags is one element. *)
(***************************************************************************)
Turn(role, content) == [role |-> role, content |-> content]

OpenTag(role) == IF role = "user" THEN "<user>" ELSE "<assistant>"
CloseTag(role) == IF role = "user" THEN "</user>" ELSE "</assistant>"

\* .map(t => ({role: t.role, content: t.content.trim()})) (line 164)
Trimmed(turns) ==
    [i \in 1..Len(turns) |-> Turn(turns[i].role, TrimText(turns[i].content))]

\* .filter(t => t.content.length > 0) (line 165)
NonEmpty(turns) == SelectSeq(turns, LAMBDA t : Len(t.content) > 0)

\* A sanitisation that filters before it trims.
FilteredThenTrimmed(turns) == Trimmed(NonEmpty(turns))

\* sanitizedHistory (lines 163-165)
SanitizedHistory(turns) == NonEmpty(Trimmed(turns))

\* `<user>\n${content}\n</user>` or `<assistant>\n${content}\n</assistant>`
\* (lines 168-172): anything but 'user' is rendered as the assistant's.
TurnBlock(t) ==
    IF t.role = "user"
        THEN <<"<user>", "\n">> \o t.content \o <<"\n", "</user>">>
        ELSE <<"<assistant>", "\n">> \o t.content \o <<"\n", "</assistant>">>

\* historySection (lines 167-173)
HistorySection(turns) ==
    JoinNL([i \in 1..Len(SanitizedHistory(turns)) |->
               TurnBlock(SanitizedHistory(turns)[i])])

\* conversationBlock (lines 175-177): filter(Boolean) drops the history
\* section when it is the empty string.
ConversationBlock(turns, message) ==
    JoinNL(SelectSeq(<<HistorySection(turns),
                       <<"<user>", "\n">> \o message \o <<"\n", "</user>">>,
                       <<"<assistant>", "\n">>>>,
                     LAMBDA part : part # <<>>))

Roles == {"user", "assistant"}

\* Contents of turns and messages: empty, blank, and text with and without
\* blanks around and inside it.
Contents ==
    { <<>>, <<" ">>, <<"\n", "\t">>, <<"a">>, <<" ", "a", "\n">>, <<"b", " ", "c">> }

Histories ==
    UNION {[1..n -> {Turn(role, c) : role \in Roles, c \in Contents}] : n \in 0..MaxHistory}

AsInit ==
    /\ apc = "call"
    /\ history \in Histories
    /\ userMessage \in {<<"a">>, <<" ", "b">>, <<>>}
    /\ conversation = <<>>

\* buildPromptWithRetrieval builds the conversation block (lines 163-177).
Assemble ==
    /\ apc = "call"
    /\ conversation' = ConversationBlock(history, userMessage)
    /\ apc' = "done"
    /\ UNCHANGED <<history, userMessage>>
    /\ UNCHANGED notAsVars

AsNext == Assemble

AssemblerInit == AsInit /\ DecInit /\ ChOff /\ IxOff /\ PlOff /\ CtOff

SpecAssembler == AssemblerInit /\ [][AsNext]_vars

(***************************************************************************)
(* OllamaController.chat from the end of the validation on: the loop over  *)
(* streamChat, the catch and the finally.  The timestamp of a record is    *)
(* left out.                                                               *)
(***************************************************************************)
Record(type, data, status) == [type |-> type, data |-> data, status |-> status]

\* {type: 'chunk', data: chunk} (lines 171-175)
ChunkRecord(fragment) == Record("chunk", fragment, 0)

\* {type: 'done'} (lines 182-185)
DoneRecord == Record("done", "", 0)

\* What streamChat may throw: an HttpException, another Error, or a value
\* that is no Error.
Thrown == {"HttpException", "Error", "other"}

\* The status of the HttpException in the model.
HTTP_STATUS == 503

\* status of the catch (lines 193, 209)
StatusOf(thrown) == IF thrown = "HttpException" THEN HTTP_STATUS ELSE 500

\* The error record of the catch (lines 196-201, 210-215): the message of
\* the error, or the default text when what was thrown is no Error.
ErrorRecord(thrown) ==
    Record("error",
           IF thrown = "other" THEN "Erreur lors de la génération de la réponse"
           ELSE thrown,
           StatusOf(thrown))

\* A catch that writes nothing.
CaughtSilently(w, thrown) == w

\* The write of the catch (lines 202, 216).
Caught(w, thrown) == Append(w, ErrorRecord(thrown))

Fragments == {"a", "b"}

CtInit ==
    /\ kpc = "validated"
    /\ produced = <<>>
    /\ outcome = "none"
    /\ written = <<>>
    /\ resStatus = 0
    /\ ended = 0

\* The headers are set, the status is 200 and streamChat is called (lines
\* 157-170).
CtEnter ==
    /\ kpc = "validated"
    /\ kpc' = "loop"
    /\ resStatus' = 200
    /\ UNCHANGED <<produced, outcome, written, ended>>
    /\ UNCHANGED notCtVars

\* streamChat yields a fragment and the loop body writes its record (lines
\* 165-180).
CtChunk ==
    /\ kpc = "loop"
    /\ Len(produced) < MaxChunks
    /\ \E f \in Fragments :
          /\ produced' = Append(produced, f)
          /\ written' = Append(written, ChunkRecord(f))
    /\ UNCHANGED <<kpc, outcome, resStatus, ended>>
    /\ UNCHANGED notCtVars

\* streamChat completes: the loop ends and the done record is written
\* (lines 182-189).
CtDone ==
    /\ kpc = "loop"
    /\ outcome' = "completed"
    /\ written' = Append(written, DoneRecord)
    /\ kpc' = "finally"
    /\ UNCHANGED <<produced, resStatus, ended>>
    /\ UNCHANGED notCtVars

\* streamChat raises: the catch sets the status and writes the error
\* record (lines 190-220).
CtCatch ==
    /\ kpc = "loop"
    /\ \E thrown \in Thrown :
          /\ outcome' = thrown
          /\ resStatus' = StatusOf(thrown)
          /\ written' = Caught(written, thrown)
    /\ kpc' = "finally"
    /\ UNCHANGED <<produced, ended>>
    /\ UNCHANGED notCtVars

\* finally: res.end() (lines 221-223).
CtEnd ==
    /\ kpc = "finally"
    /\ ended' = ended + 1
    /\ kpc' = "returned"
    /\ UNCHANGED <<produced, outcome, written, resStatus>>
    /\ UNCHANGED notCtVars

CtNext == CtEnter \/ CtChunk \/ CtDone \/ CtCatch \/ CtEnd

ControllerInit == CtInit /\ DecInit /\ ChOff /\ IxOff /\ PlOff /\ AsOff

SpecController == ControllerInit /\ [][CtNext]_vars

(***************************************************************************)
(* Properties of the stream decoder.                                       *)
(***************************************************************************)
Terminal == {"done", "failed"}

\* The text handed to JSON.parse for a line (<<>> for a blank line).
PayloadOf(line) == JsonPayload(TrimLine(line))

\* The line parses to a record.
Parseable(line) == PayloadOf(line) # <<>> /\ ParseOk(PayloadOf(line))

RecordOf(line) == JsonParse(PayloadOf(line))

\* The line is blank, or blank after the prefix, or does not parse.
Discarded(line) == ~Parseable(line)

ErrorLine(line) == Parseable(line) /\ RecordOf(line).error # Absent
DoneLine(line) == Parseable(line) /\ RecordOf(line).done = <<TRUE>>

\* The fragment a record contributes: its response when present and non-empty.
FragmentOf(line) ==
    IF RecordOf(line).response # Absent /\ RecordOf(line).response # <<"">>
        THEN RecordOf(line).response
        ELSE <<>>

LastLine == consumed[Len(consumed)]

\* C1: whenever a delivered line parses to a record with an error field, the
\* decoder is in FAILED with that message, the line is the last one received
\* and nothing was yielded for it.
C1_ErrorLineFails ==
    \A i \in 1..Len(consumed) :
        ErrorLine(consumed[i]) =>
            /\ pc = "failed"
            /\ errMsg = RecordOf(consumed[i]).error
            /\ i = Len(consumed)
            /\ Len(out) = marks[i]

\* What C2 states of line i: it is the last line received, the decoder has
\* yielded exactly its fragment since receiving it and is done, or suspended
\* at that yield on its way out of the loop.
StopsAt(i) ==
    /\ i = Len(consumed)
    /\ out = SubSeq(out, 1, marks[i]) \o FragmentOf(consumed[i])
    /\ Len(out) = marks[i] + Len(FragmentOf(consumed[i]))
    /\ \/ pc = "done"
       \/ pc = "yielded" /\ pendingBreak /\ FragmentOf(consumed[i]) # <<>>

\* C2 as stated: every received line whose record has done=true stops the
\* decoder in DONE after that line's fragment.
C2_AnyDoneLineStops ==
    \A i \in 1..Len(consumed) : DoneLine(consumed[i]) => StopsAt(i)

\* C2 (amended): every received line whose record has done=true and no error
\* field stops the decoder in DONE after that line's fragment; no later line
\* is received and no later fragment is yielded.
C2_DoneLineStops ==
    \A i \in 1..Len(consumed) :
        (DoneLine(consumed[i]) /\ ~ErrorLine(consumed[i])) => StopsAt(i)

\* A done line with a response was received, its fragment yielded, and the
\* decoder finished.
C2_Witness ==
    /\ pc = "done"
    /\ ~cancelled
    /\ Len(consumed) >= 2
    /\ DoneLine(LastLine) /\ ~ErrorLine(LastLine)
    /\ FragmentOf(LastLine) # <<>>
    /\ Len(out) >= 2

\* The fragments C3 expects of a line sequence: the fragments of the
\* parseable lines up to the first terminating line (a done line, which
\* contributes its fragment, or an error line, which contributes none).
RECURSIVE ExpectedFragments(_)
ExpectedFragments(ls) ==
    IF ls = <<>> THEN <<>>
    ELSE IF Discarded(Head(ls)) THEN ExpectedFragments(Tail(ls))
    ELSE IF ErrorLine(Head(ls)) THEN <<>>
    ELSE IF DoneLine(Head(ls)) THEN FragmentOf(Head(ls))
    ELSE FragmentOf(Head(ls)) \o ExpectedFragments(Tail(ls))

\* C3: at every moment the fragments yielded are exactly the expected
\* fragments of the lines received so far, in order: the fragment of a line
\* is out before the next line is received.
C3_FragmentsInOrder == out = ExpectedFragments(consumed)

\* The decoder state a discarded line must leave alone.
DecoderState == <<pc, reader, out, pendingBreak, errMsg, cancelled, inputEnded>>

\* The lines of a sequence that are not discarded.
Kept(ls) == SelectSeq(ls, LAMBDA l : ~Discarded(l))

\* The loop replayed on a line sequence: the fragments yielded and whether
\* the loop was left, by a break or by an exception.
RECURSIVE Replay(_)
Replay(ls) ==
    IF ls = <<>> THEN [frags |-> <<>>, left |-> <<>>]
    ELSE LET e == ProcessLine(Head(ls))
         IN  IF e.throw # <<>> THEN [frags |-> <<>>, left |-> e.throw]
             ELSE IF e.brk THEN [frags |-> e.yield, left |-> <<"break">>]
             ELSE LET r == Replay(Tail(ls))
                  IN  [frags |-> e.yield \o r.frags, left |-> r.left]

\* C4: receiving a blank or unparseable line raises nothing, yields nothing
\* and leaves the decoder in READING with its state unchanged; the lines
\* received are decoded as the same lines without the discarded ones.
C4_DiscardedLineIsNoOp ==
    /\ [][(Len(consumed') = Len(consumed) + 1
            /\ Discarded(consumed'[Len(consumed')]))
          => (DecoderState' = DecoderState /\ pc' = "reading")]_vars
    /\ [](Replay(consumed) = Replay(Kept(consumed)))

\* Discarded lines were received before a line that yielded a fragment.
C4_Witness ==
    /\ Len(consumed) = 3
    /\ Discarded(consumed[1])
    /\ Discarded(consumed[2])
    /\ consumed[1] # consumed[2]
    /\ pc = "yielded"
    /\ out = FragmentOf(consumed[3])

NoDoneLine == \A i \in 1..Len(consumed) : ~DoneLine(consumed[i])
NoErrorLine == \A i \in 1..Len(consumed) : ~ErrorLine(consumed[i])

\* C5: every call reaches a terminal state, and when the input ended with no
\* done line and no error line received that state is DONE, with no error.
C5_Terminates ==
    /\ <>(pc \in Terminal)
    /\ []((inputEnded /\ NoDoneLine /\ NoErrorLine)
            => (pc = "done" /\ errMsg = <<>>))

\* The input ended after lines none of which was a done or an error line.
C5_Witness ==
    /\ inputEnded
    /\ NoDoneLine
    /\ NoErrorLine
    /\ Len(consumed) >= 2
    /\ out # <<>>
    /\ pc = "done"

\* C6: once created, the reader is closed whenever the generator has
\* finished, however it finished, and after the consumer cancelled no line
\* is received any more.
C6_ReaderClosedOnExit ==
    /\ []((reader # "none" /\ pc \in Terminal) => reader = "closed")
    /\ [](pc = "idle" => reader = "none")
    /\ [][cancelled => consumed' = consumed]_vars

\* The consumer cancelled at a yield while the stream had not ended.
C6_Witness ==
    /\ cancelled
    /\ pc = "done"
    /\ reader = "closed"
    /\ ~inputEnded
    /\ ~DoneLine(LastLine)

(***************************************************************************)
(* Properties of the chunker.                                              *)
(***************************************************************************)
ChunkIndexes == 1..Len(chunks)

\* C7: every chunk pushed, by a flush or by a forced split, has text that
\* is not empty after trimming.
C7_NoEmptyChunk ==
    \A k \in ChunkIndexes : TrimText(chunks[k].text) # <<>>

\* C8: every chunk is at most maxLen + overlap long, every chunk of a forced
\* split at most maxLen (before trimming too), and between two lines of the
\* loop the joined buffer is at most maxLen + overlap long.
C8_LengthBounds ==
    /\ \A k \in ChunkIndexes :
          /\ Len(chunks[k].text) <= maxLen + overlap
          /\ chunks[k].forced =>
                (Len(chunks[k].text) <= maxLen /\ chunks[k].rawLen <= maxLen)
    /\ Len(JoinNL(buf)) <= maxLen + overlap

\* A forced split cut a buffer longer than maxLen + overlap into full parts,
\* and a flush pushed a chunk longer than maxLen.
C8_Witness ==
    /\ cpc = "done"
    /\ overlap > 0
    /\ \E k \in ChunkIndexes : chunks[k].forced /\ chunks[k].rawLen = maxLen
    /\ \E k \in ChunkIndexes : ~chunks[k].forced /\ Len(chunks[k].text) > maxLen

\* The characters of s that are not whitespace, in order.
NonWs(s) == SelectSeq(s, LAMBDA c : c \notin Whitespace)

RECURSIVE ConcatTexts(_)
ConcatTexts(cs) ==
    IF cs = <<>> THEN <<>> ELSE Head(cs).text \o ConcatTexts(Tail(cs))

\* C9: the chunk texts in order, then the buffer, hold the non-whitespace
\* characters of the lines read so far, each once and in order; at the
\* return the chunk texts hold those of the whole input.
C9_NoLossNoDuplication ==
    /\ cpc \in {"loop", "done"} =>
          NonWs(ConcatTexts(chunks)) \o NonWs(JoinNL(buf))
              = NonWs(JoinNL(SubSeq(lines, 1, ix)))
    /\ cpc = "done" => NonWs(ConcatTexts(chunks)) = NonWs(md)

\* A forced split cut text in the middle of a line and a later flush
\* followed: at least three chunks hold the input.
C9_Witness ==
    /\ cpc = "done"
    /\ Len(chunks) >= 3
    /\ \E k \in ChunkIndexes : chunks[k].forced /\ chunks[k].first = chunks[k].last
    /\ ~chunks[Len(chunks)].forced
    /\ Len(NonWs(md)) >= 4

\* The line is a heading of level 2 to 6: n hashes, whitespace, then text
\* that runs to the end of the line.
IsHeading(line) ==
    \E n \in 2..6 : \E j \in (n + 1)..(Len(line) - 1) :
        /\ \A i \in 1..n : line[i] = "#"
        /\ \A i \in (n + 1)..j : line[i] \in Whitespace
        /\ \A i \in (j + 1)..Len(line) : line[i] \notin LineTerminators

\* The text of a heading line: what follows its hashes, trimmed.
HeadingTextOf(line) == TrimText(Drop(line, LeadingRun(line, {"#"})))

HeadingsUpTo(k) == {i \in 1..k : i <= Len(lines) /\ IsHeading(lines[i])}

Max(S) == CHOOSE x \in S : \A y \in S : y <= x

\* The label of the nearest heading at or before line k, if any.
NearestLabel(k) ==
    IF HeadingsUpTo(k) = {} THEN <<>>
    ELSE <<HeadingTextOf(lines[Max(HeadingsUpTo(k))])>>

\* C10: every chunk carries the label of the nearest heading at or before
\* its first line, or none, and no heading line lies after the first line
\* of a chunk and up to its last: text from before a heading never carries
\* that heading's label.
C10_SectionLabel ==
    \A k \in ChunkIndexes :
        /\ chunks[k].section = NearestLabel(chunks[k].first)
        /\ \A i \in (chunks[k].first + 1)..chunks[k].last : ~IsHeading(lines[i])

\* Text before a first heading was flushed without a label, and text after
\* a second heading carries the second label.
C10_Witness ==
    /\ cpc = "done"
    /\ Len(chunks) >= 3
    /\ chunks[1].section = <<>>
    /\ chunks[2].section # <<>>
    /\ chunks[3].section # <<>>
    /\ chunks[3].section # chunks[2].section
    /\ chunks[1].last < chunks[2].first
    /\ IsHeading(lines[chunks[2].first])

(***************************************************************************)
(* Properties of the vector store.                                         *)
(***************************************************************************)
\* The position in the store of the item with this id.
PositionOf(id) == CHOOSE i \in 1..Len(items) : items[i].id = id

ScoreOf(it) == Cosine(lastCall.query, it.vector)

\* Every score of the last search is a number: no stored vector is shorter
\* than the query.
ScoresDefined ==
    \A i \in 1..Len(items) : Len(items[i].vector) >= Len(lastCall.query)

\* The score of a stored item against the last query is a number.
IsNumber(it) == ~ScoreOf(it).nan

\* C11: every search returns min(k, size) items, of which none that scores
\* a number comes after one that scores a lower number, and leaves out no
\* item that scores a higher number than one it returns.
C11_SearchOrdered ==
    lastCall.op = "search" =>
        LET r == lastCall.result
        IN  /\ Len(r) = Min(lastCall.k, Len(items))
            /\ \A i, j \in 1..Len(r) :
                  (i < j /\ IsNumber(r[i]) /\ IsNumber(r[j])) =>
                      ~Greater(ScoreOf(r[j]), ScoreOf(r[i]))
            /\ \A j \in 1..Len(items), i \in 1..Len(r) :
                  /\ \A h \in 1..Len(r) : r[h].id # items[j].id
                  /\ IsNumber(items[j])
                  /\ IsNumber(r[i])
                  => ~Greater(ScoreOf(items[j]), ScoreOf(r[i]))

\* C11 where every score is a number: the search returns min(k, size)
\* items of the store, no item twice, the higher score first and of two
\* equal scores the earlier inserted first, and leaves out no item that
\* scores higher than one it returns.
C11_SearchTopK ==
    (lastCall.op = "search" /\ ScoresDefined) =>
        LET r == lastCall.result
        IN  /\ Len(r) = Min(lastCall.k, Len(items))
            /\ \A i \in 1..Len(r) : \E j \in 1..Len(items) : items[j] = r[i]
            /\ \A i, j \in 1..Len(r) : i < j =>
                  /\ r[i].id # r[j].id
                  /\ ~Greater(ScoreOf(r[j]), ScoreOf(r[i]))
                  /\ ~Greater(ScoreOf(r[i]), ScoreOf(r[j]))
                        => PositionOf(r[i].id) < PositionOf(r[j].id)
            /\ \A j \in 1..Len(items) :
                  (\A i \in 1..Len(r) : r[i].id # items[j].id) =>
                      \A i \in 1..Len(r) : ~Greater(ScoreOf(items[j]), ScoreOf(r[i]))

\* A search cut the store short: it returned the last inserted item first
\* and, of two items of equal score, the earlier inserted one only.
C11_Witness ==
    /\ lastCall.op = "search"
    /\ ScoresDefined
    /\ lastCall.k = 2
    /\ Len(items) = 3
    /\ LET r == lastCall.result
       IN  /\ Len(r) = 2
           /\ r[1] = items[3]
           /\ r[2] = items[1]
           /\ items[1].vector # items[2].vector
           /\ Greater(ScoreOf(r[1]), ScoreOf(r[2]))
           /\ ~Greater(ScoreOf(items[1]), ScoreOf(items[2]))
           /\ ~Greater(ScoreOf(items[2]), ScoreOf(items[1]))
ReadOnlyCalls == {"search", "count", "isEmpty"}

\* C12: every step keeps the stored items where they are and as they are,
\* so the count never decreases; search, count and isEmpty change nothing;
\* addMany with n chunks and n vectors leaves n more items at the end, the
\* i-th made of the i-th chunk and the i-th vector; count and isEmpty
\* answer for the store as it is.
C12_AppendOnly ==
    /\ [][/\ Len(items') >= Len(items)
          /\ SubSeq(items', 1, Len(items)) = items
          /\ lastCall'.op \in ReadOnlyCalls => (items' = items /\ dim' = dim)]_vars
    /\ [](lastCall.op = "addMany" =>
            /\ Len(items) = lastCall.n + Len(lastCall.chunks)
            /\ \A i \in 1..Len(lastCall.chunks) :
                  /\ items[lastCall.n + i].id = lastCall.chunks[i].id
                  /\ items[lastCall.n + i].text = lastCall.chunks[i].text
                  /\ items[lastCall.n + i].vector = lastCall.vectors[i])
    /\ [](lastCall.op = "count" => lastCall.n = Len(items))
    /\ [](lastCall.op = "isEmpty" => (lastCall.flag <=> Len(items) = 0))

\* addMany put two chunks with different vectors behind an item that was
\* there before.
C12_Witness ==
    /\ lastCall.op = "addMany"
    /\ lastCall.n >= 1
    /\ Len(lastCall.chunks) = 2
    /\ lastCall.vectors[1] # lastCall.vectors[2]
    /\ Len(items) = lastCall.n + 2

\* C18: every stored vector has the dimension the store recorded.
C18_UniformDimension ==
    \A i \in 1..Len(items) : dim # <<>> /\ Len(items[i].vector) = dim[1]

(***************************************************************************)
(* Properties of ingestion, retrieval and the embedding client.            *)
(***************************************************************************)
\* The stored items that call r added, in the order of the store.
ItemsOf(r) == SelectSeq(items, LAMBDA it : it.id[1] = r)

\* Positions of the trace of a call at which event ev stands.
At(rec, ev) == {p \in 1..Len(rec.log) : rec.log[p].ev = ev}

\* C13: the chunks indexDocuments has added come only from the first
\* MAX_DOCS documents, of each only the first MAX_CHUNKS_PER_DOC chunks, all
\* of them within the first MAX_CHARS_PER_DOC characters, and every chunk of
\* that range is added once: at most MAX_DOCS * MAX_CHUNKS_PER_DOC in all,
\* exactly MAX_DOCS for more than MAX_DOCS one-chunk documents.  A call
\* without documents sends nothing and adds nothing.
C13_IngestionCaps ==
    LET rec == req["r1"]
        docs == rec.docs
        InRange(d, c) ==
            /\ d \in 1..Len(docs) /\ d <= MAX_DOCS
            /\ c \in 1..docs[d].units /\ c <= MAX_CHUNKS_PER_DOC
            /\ c * docs[d].unitChars <= MAX_CHARS_PER_DOC
    IN  /\ (rec.pc = "done" /\ rec.entry = "indexDocuments") =>
              /\ Len(items) <= MAX_DOCS * MAX_CHUNKS_PER_DOC
              /\ \A i \in 1..Len(items) :
                    /\ InRange(items[i].id[2], items[i].id[3])
                    /\ items[i].text = <<docs[items[i].id[2]].name, items[i].id[3]>>
                    /\ i > 1 => \/ /\ items[i].id[2] = items[i - 1].id[2]
                                   /\ items[i].id[3] = items[i - 1].id[3] + 1
                                \/ /\ items[i].id[2] > items[i - 1].id[2]
                                   /\ items[i].id[3] = 1
              /\ \A d \in 1..Len(docs) :
                    InRange(d, 1) => \E i \in 1..Len(items) : items[i].id[2] = d
              /\ \A i \in 1..Len(items) :
                    LET d == items[i].id[2]
                        c == items[i].id[3]
                    IN  InRange(d, c + 1) =>
                            /\ i < Len(items)
                            /\ items[i + 1].id = <<"r1", d, c + 1>>
              /\ (Len(docs) > MAX_DOCS /\ \A d \in 1..Len(docs) : docs[d].units = 1)
                    => Len(items) = MAX_DOCS
        /\ (rec.pc # "idle" /\ docs = <<>>) =>
              (rec.pc = "done" /\ rec.log = <<>> /\ items = <<>>)

\* indexDocuments returned from MAX_DOCS + 5 documents of one chunk each.
C13_Witness ==
    /\ req["r1"].pc = "done"
    /\ Len(req["r1"].docs) = MAX_DOCS + 5
    /\ Len(items) = MAX_DOCS

\* indexDocuments returned from a document longer than MAX_CHARS_PER_DOC.
C13_WitnessChars ==
    /\ req["r1"].pc = "done"
    /\ Len(req["r1"].docs) = 1
    /\ req["r1"].docs[1].units * req["r1"].docs[1].unitChars > MAX_CHARS_PER_DOC
    /\ Len(items) = 4

EmbedEvents == {"request", "reply", "invalid", "transport"}

\* The part of the trace of a call that belongs to the embed call of
\* indexDocuments ("ingest": up to addMany) or of retrieveContext ("query":
\* from there on).
Segment(rec, phase) ==
    LET cut == IF At(rec, "addMany") = {} THEN 0
               ELSE CHOOSE p \in At(rec, "addMany") : TRUE
        ingestEnd == IF rec.toAdd = <<>> THEN 0
                     ELSE IF cut = 0 THEN Len(rec.log)
                     ELSE cut
        part == IF phase = "ingest" THEN SubSeq(rec.log, 1, ingestEnd)
                ELSE SubSeq(rec.log, ingestEnd + 1, Len(rec.log))
    IN  SelectSeq(part, LAMBDA e : e.ev \in EmbedEvents)

\* The texts a call gives to embed in a phase, <<>> before it gets there.
TextsGiven(rec, phase) ==
    IF phase = "ingest" THEN TextsOf(rec.toAdd)
    ELSE IF rec.phase = "query" THEN <<rec.message>>
    ELSE <<>>

\* Requests and replies of one embed call alternate, request i is for text
\* i and reply i answers it, and only the last reply can be a failure.
Sequential(seg, texts) ==
    /\ Len(seg) <= 2 * Len(texts)
    /\ \A p \in 1..Len(seg) :
          IF p % 2 = 1
              THEN seg[p] = Event("request", texts[(p + 1) \div 2], <<>>, (p + 1) \div 2)
              ELSE /\ seg[p].ev \in {"reply", "invalid", "transport"}
                   /\ seg[p].text = texts[p \div 2]
                   /\ seg[p].n = p \div 2
                   /\ seg[p].ev # "reply" => p = Len(seg)

\* C14: an embed call sends one request per text, in the order of the
\* texts, each after the reply to the one before, so that at most one is in
\* flight; when it returns it has one vector per text and vector i is the
\* one the backend sent back for text i.
C14_EmbedSequential ==
    \A r \in Requests :
        LET rec == req[r]
        IN  /\ \A phase \in {"ingest", "query"} :
                  Sequential(Segment(rec, phase), TextsGiven(rec, phase))
            /\ rec.pc = "embed" =>
                  /\ rec.inflight
                  /\ Len(Segment(rec, rec.phase)) = 2 * Len(rec.vectors) + 1
            /\ rec.pc = "embedded" =>
                  LET seg == Segment(rec, rec.phase)
                  IN  /\ Len(rec.vectors) = Len(rec.texts)
                      /\ Len(seg) = 2 * Len(rec.texts)
                      /\ \A i \in 1..Len(rec.texts) :
                            /\ seg[2 * i - 1].text = rec.texts[i]
                            /\ seg[2 * i] = Event("reply", rec.texts[i], rec.vectors[i], i)

\* embed has returned two different vectors for two texts.
C14_Witness ==
    \E r \in Requests :
        /\ req[r].pc = "embedded"
        /\ Len(req[r].texts) = 2
        /\ Len(req[r].vectors) = 2
        /\ req[r].vectors[1] # req[r].vectors[2]

FailureEvents == {"invalid", "transport"}

\* C15: a reply without a vector, or a failed transport call, is the last
\* thing in the trace of the call: no request follows it, for the same text
\* or for a later one, and no generation request; the call has failed with
\* an error for its caller, and it stays as it is.
C15_NoRetry ==
    /\ [](\A r \in Requests :
            \A p \in 1..Len(req[r].log) :
                req[r].log[p].ev \in FailureEvents =>
                    /\ p = Len(req[r].log)
                    /\ At(req[r], "send") = {}
                    /\ ~req[r].inflight
                    /\ req[r].pc = "failed"
                    /\ req[r].error =
                          (IF req[r].log[p].ev = "invalid"
                               THEN "Embedding invalide depuis Ollama"
                           ELSE IF req[r].entry = "streamChat"
                               THEN "Ollama API request failed"
                           ELSE "axios"))
    /\ [][\A r \in Requests : req[r].pc = "failed" => req'[r] = req[r]]_vars

\* streamChat failed on the reply to the first of two texts, and another
\* on a transport failure.
C15_Witness ==
    \E r, q \in Requests :
        /\ req[r].entry = "streamChat"
        /\ req[r].pc = "failed"
        /\ Len(req[r].texts) = 2
        /\ req[r].log[Len(req[r].log)] = Event("invalid", req[r].texts[1], <<>>, 1)
        /\ req[q].pc = "failed"
        /\ req[q].log[Len(req[q].log)].ev = "transport"

\* The items call r gives to addMany: chunk i with the vector of its text.
BatchOf(r) ==
    [i \in 1..Len(req[r].toAdd) |->
        [id |-> req[r].toAdd[i].id, text |-> req[r].toAdd[i].text,
         vector |-> Embedding(req[r].toAdd[i].text)]]

Added(r) == At(req[r], "addMany") # {}

\* The store is made of whole batches, one behind the other.
WholeBatches(its) ==
    \A r \in Requests :
        LET mine == {i \in 1..Len(its) : its[i].id[1] = r}
        IN  mine # {} =>
                \E b \in 0..Len(its) :
                    /\ mine = (b + 1)..(b + Len(req[r].toAdd))
                    /\ SubSeq(its, b + 1, b + Len(req[r].toAdd)) = BatchOf(r)

\* C16: with calls interleaved at their awaits the store is at every
\* moment, and so at every search, a sequence of whole batches: the chunks
\* of a call that has done its addMany are all there, each with its
\* vector, next to one another and in their order, and of a call that has
\* not there is none; every step adds one whole batch at the end or
\* leaves the store as it is, and a search sees all of it.
C16_AtomicBatches ==
    /\ [](/\ WholeBatches(items)
          /\ \A r \in Requests :
                /\ (Added(r) <=> \E i \in 1..Len(items) : items[i].id[1] = r)
                /\ \A p \in At(req[r], "search") :
                      /\ req[r].log[p].n <= Len(items)
                      /\ WholeBatches(SubSeq(items, 1, req[r].log[p].n)))
    /\ [][\/ items' = items
          \/ \E r \in Requests : ~Added(r) /\ items' = items \o BatchOf(r)]_vars
    /\ [][\A r \in Requests :
            (At(req[r], "search") = {} /\ At(req'[r], "search") # {}) =>
                \A p \in At(req'[r], "search") : req'[r].log[p].n = Len(items)]_vars

\* While one call waits for the vector of its second chunk, another has
\* added its batch of two chunks and searched the store.
C16_Witness ==
    /\ req["r1"].pc = "embed"
    /\ req["r1"].phase = "ingest"
    /\ Len(req["r1"].texts) = 2
    /\ Len(req["r1"].vectors) = 1
    /\ items = BatchOf("r2")
    /\ Len(items) = 2
    /\ \E p \in At(req["r2"], "search") : req["r2"].log[p].n = 2

\* Positions of the trace of a call at which one of the events evs stands.
AtAny(rec, evs) == {p \in 1..Len(rec.log) : rec.log[p].ev \in evs}

Before(ps, qs) == \A p \in ps, q \in qs : p < q

\* C17: in a streamChat call the requests and replies of the ingestion
\* embed come before addMany, addMany before the request for the message's
\* vector, its reply before the search, the search before the generation
\* request and that before every fragment; the search sees every chunk of
\* the call's documents in the store; one generation request is sent, and
\* none before the prompt is there.
C17_StepOrder ==
    \A r \in Requests :
        LET rec == req[r]
            ingest == {p \in AtAny(rec, EmbedEvents) : rec.log[p].text # rec.message}
            query == {p \in AtAny(rec, EmbedEvents) : rec.log[p].text = rec.message}
        IN  rec.entry = "streamChat" =>
                /\ Before(ingest, At(rec, "addMany"))
                /\ Before(At(rec, "addMany"), query)
                /\ Before(query, At(rec, "search"))
                /\ Before(At(rec, "search"), At(rec, "send"))
                /\ Before(At(rec, "send"), AtAny(rec, {"yield", "genFailed"}))
                /\ Cardinality(At(rec, "addMany")) = (IF Added(r) THEN 1 ELSE 0)
                /\ Cardinality(At(rec, "search")) <= 1
                /\ Cardinality(At(rec, "send")) <= 1
                /\ At(rec, "search") # {} =>
                      /\ rec.toAdd # <<>> => Added(r)
                      /\ \A p \in At(rec, "search") :
                            \A i \in 1..Len(rec.toAdd) :
                                \E j \in 1..rec.log[p].n : items[j].id = rec.toAdd[i].id
                /\ At(rec, "send") # {} => (At(rec, "search") # {} /\ rec.prompt)
                /\ At(rec, "yield") # {} => At(rec, "send") # {}
                /\ rec.pc \in {"awaitGen", "decoding", "done"} =>
                      Cardinality(At(rec, "send")) = 1

\* A streamChat call with two chunks to ingest has yielded a fragment and
\* completed; its search returned both chunks.
C17_Witness ==
    \E r \in Requests :
        /\ req[r].entry = "streamChat"
        /\ req[r].pc = "done"
        /\ Len(req[r].toAdd) = 2
        /\ req[r].fragments = 1
        /\ \A i \in 1..2 : \E h \in 1..Len(req[r].hits) : req[r].hits[h] = req[r].toAdd[i].id

\* C20: indexDocuments calls addMany once, after the reply to the request
\* for its last chunk.  Until then, and for good if a request fails, the
\* store holds nothing of the call, and the failing step leaves the store
\* as it is; the addMany step makes the store longer by the number of
\* chunks the caps selected, whatever the store holds already.
C20_AllOrNothing ==
    /\ [](\A r \in Requests :
            /\ Cardinality(At(req[r], "addMany")) <= 1
            /\ Len(ItemsOf(r)) = (IF Added(r) THEN Len(req[r].toAdd) ELSE 0)
            /\ \A p \in At(req[r], "addMany") :
                  /\ Len(SelectSeq(SubSeq(req[r].log, 1, p), LAMBDA e : e.ev = "reply"))
                        = Len(req[r].toAdd)
                  /\ AtAny(req[r], FailureEvents) \subseteq (p + 1)..Len(req[r].log)
            /\ (req[r].pc = "failed" /\ req[r].phase = "ingest") => ItemsOf(r) = <<>>)
    /\ [][\A r \in Requests :
            /\ (req[r].pc = "embed" /\ req'[r].pc = "failed") => items' = items
            /\ (~Added(r) /\ At(req'[r], "addMany") # {}) =>
                  /\ Len(items') = Len(items) + Len(req[r].toAdd)
                  /\ Len(req[r].toAdd) = Len(ToAdd(r, req[r].docs))
                  /\ SubSeq(items', 1, Len(items)) = items]_vars

\* A call failed on the reply for its second chunk; the store holds the
\* batch of the other call and nothing of the failed one.
C20_Witness ==
    \E r, q \in Requests :
        /\ req[r].pc = "failed"
        /\ req[r].phase = "ingest"
        /\ Len(req[r].vectors) = 1
        /\ Len(req[r].toAdd) = 2
        /\ ItemsOf(r) = <<>>
        /\ Added(q)
        /\ items = BatchOf(q)
        /\ Len(items) = 2

\* Two calls ingested the same documents and the store holds their chunks
\* twice.
C20_WitnessTwice ==
    \E r, q \in Requests :
        /\ r # q
        /\ Added(r)
        /\ Added(q)
        /\ req[r].docs = req[q].docs
        /\ Len(req[r].toAdd) = 2
        /\ Len(items) = 4
        /\ items[1].text = items[3].text
        /\ items[2].text = items[4].text

(***************************************************************************)
(* Properties of the prompt assembler.                                     *)
(***************************************************************************)
CloseTags == {"</user>", "</assistant>"}

\* The blocks a rendered conversation is made of, read from left to right:
\* an opening tag, a line break, the content up to the line break before
\* the first closing tag, and a line break before the next block.  The
\* opening assistant tag the conversation ends with is no block.  Text that
\* does not read this way gives a turn of role "malformed".
RECURSIVE ParseBlocks(_)
ParseBlocks(s) ==
    IF s = <<"<assistant>", "\n">> THEN <<>>
    ELSE LET closes == {p \in 1..Len(s) : s[p] \in CloseTags}
             close == CHOOSE p \in closes : \A q \in closes : p <= q
             role == IF s[1] = "<user>" THEN "user" ELSE "assistant"
         IN  IF /\ closes # {}
                /\ close >= 4
                /\ close + 1 <= Len(s)
                /\ s[1] \in {"<user>", "<assistant>"}
                /\ s[2] = "\n"
                /\ s[close - 1] = "\n"
                /\ s[close] = CloseTag(role)
                /\ s[close + 1] = "\n"
                THEN <<Turn(role, SubSeq(s, 3, close - 2))>>
                         \o ParseBlocks(SubSeq(s, close + 2, Len(s)))
                ELSE <<Turn("malformed", s)>>

\* The content has a character that is not whitespace.
Visible(content) == \E j \in 1..Len(content) : content[j] \notin Whitespace

\* The content from its first to its last character that is not whitespace.
Core(content) ==
    LET js == {j \in 1..Len(content) : content[j] \notin Whitespace}
    IN  SubSeq(content,
               CHOOSE j \in js : \A h \in js : j <= h,
               CHOOSE j \in js : \A h \in js : j >= h)

\* C19: the conversation reads as one block per turn of the history whose
\* content is not all whitespace, tagged with the turn's role and holding
\* its content without the whitespace around it, in the order of the
\* history, and after them one user block with the message; a turn that is
\* empty or all whitespace has no block.
C19_HistorySanitised ==
    apc = "done" =>
        LET shown == SelectSeq(history, LAMBDA t : Visible(t.content))
        IN  ParseBlocks(conversation) =
                [i \in 1..Len(shown) |-> Turn(shown[i].role, Core(shown[i].content))]
                    \o <<Turn("user", userMessage)>>

\* A conversation was built from a history whose first turn is blank and
\* whose second has whitespace around its text.
C19_Witness ==
    /\ apc = "done"
    /\ Len(history) = 2
    /\ history[1] = Turn("user", <<"\n", "\t">>)
    /\ history[2] = Turn("assistant", <<" ", "a", "\n">>)
    /\ ParseBlocks(conversation) = <<Turn("assistant", <<"a">>), Turn("user", userMessage)>>

(***************************************************************************)
(* Properties of the controller.                                           *)
(***************************************************************************)
Terminals == {"done", "error"}

\* Positions of the response at which a record of one of the types stands.
RecordsOf(types) == {p \in 1..Len(written) : written[p].type \in types}

\* C21: the response holds one chunk record per fragment streamChat has
\* yielded, in their order, and after them at most one record more: done
\* once streamChat has completed, error once it has raised, and nothing
\* before either.  No step writes a chunk behind a done or error record.
\* res.end() is called once, after that record, and never again.
C21_ResponseFraming ==
    /\ [](/\ SubSeq(written, 1, Len(produced)) =
                [i \in 1..Len(produced) |-> ChunkRecord(produced[i])]
          /\ Len(written) = Len(produced) + (IF outcome = "none" THEN 0 ELSE 1)
          /\ outcome = "completed" => written[Len(written)].type = "done"
          /\ outcome \in Thrown =>
                /\ written[Len(written)].type = "error"
                /\ written[Len(written)].status = resStatus
          /\ Cardinality(RecordsOf(Terminals)) <= 1
          /\ ended = (IF kpc = "returned" THEN 1 ELSE 0)
          /\ kpc \in {"finally", "returned"} <=> outcome # "none")
    /\ [][/\ RecordsOf(Terminals) # {} => written' = written
          /\ ended' >= ended
          /\ kpc = "returned" => UNCHANGED ctVars]_vars

\* A response of two chunk records and an error record has been ended.
C21_Witness ==
    /\ kpc = "returned"
    /\ ended = 1
    /\ produced = <<"a", "b">>
    /\ Len(written) = 3
    /\ written[1] = ChunkRecord("a")
    /\ written[2] = ChunkRecord("b")
    /\ written[3].type = "error"

\* A response of one chunk record and a done record has been ended.
C21_WitnessDone ==
    /\ kpc = "returned"
    /\ ended = 1
    /\ written = <<ChunkRecord("b"), DoneRecord>>

=============================================================================
